---- MODULE Spec2Model ----
(***************************************************************************)
(* The three HTTP services of src/backend:                                 *)
(*   api_youtube.py  the yt-dlp service  (video-info, download-link)       *)
(*   flsfls;fs.py    the pytube service  (video-info, download-link)       *)
(*   check.py        the Rutube service  (video_info, serves video.mp4)    *)
(* Strings that the code inspects ('.' in filename, the text of an         *)
(* exception inside a detail message) are sequences of tokens.  A dict key *)
(* that is not present is the value Absent; a query parameter that the     *)
(* request does not carry is the value Missing.                            *)
(***************************************************************************)
EXTENDS Integers, Sequences, FiniteSets, TLC

\* Bounds of the model.
NumReq == 2
MaxFormats == 2
NumRtReq == 2
ChunksPerVideo == 2

Absent == "<absent>"
Missing == "<missing>"

Req == 1..NumReq
Services == {"ytdlp", "pytube"}

\* What a client may send as url and as itag.
UrlParams == {Missing, "", "https://youtu.be/v"}
ItagParams == {Missing, "", "18", "hd"}

SeqUpTo(S, n) == UNION {[1..k -> S] : k \in 0..n}

Range(s) == {s[i] : i \in 1..Len(s)}

\* dict.get(key, default)
DictGet(v, default) == IF v = Absent THEN default ELSE v

----------------------------------------------------------------------------
(* Exceptions and HTTP responses *)

NoExc == [type |-> "none", status |-> 0, detail |-> <<>>]

\* fastapi.HTTPException(status_code, detail); it is a subclass of Exception.
HTTPException(status, detail) ==
    [type |-> "HTTPException", status |-> status, detail |-> detail]

\* An exception raised by the extraction library: yt_dlp.utils.DownloadError
\* or any other Exception, with its message.
LibException(type, text) == [type |-> type, status |-> 0, detail |-> <<text>>]

\* str(e): the message of a library exception; "<status>: <detail>" for an
\* HTTPException.
StrOf(e) ==
    IF e.type = "HTTPException" THEN <<ToString(e.status), ": ">> \o e.detail
    ELSE e.detail

ExcTexts == {"Video unavailable"}
LibRaises == {"DownloadError", "Exception"}

NoBody == [formats |-> <<>>, url |-> Absent, filename |-> <<>>]

ErrorResponse(e) == [status |-> e.status, detail |-> e.detail, body |-> NoBody]

OkResponse(body) == [status |-> 200, detail |-> <<>>, body |-> body]

NoResponse == [status |-> 0, detail |-> <<>>, body |-> NoBody]

\* FastAPI's answer to a request that lacks a required query parameter
\* (url: str = Query(...)): 422, before the handler body runs.
ValidationErrorResponse ==
    [status |-> 422, detail |-> <<"field required">>, body |-> NoBody]

----------------------------------------------------------------------------
(* What the extraction library hands back.  The library is a black box: a   *)
(* call either raises or returns an info dict, chosen nondeterministically. *)

FormatIds == {"18", "22"}
EntryUrls == {"http://a", "http://b"}
Exts == {"webm"}
Titles == {Absent, "Title"}

\* The outcome of one library call.
LibReturn(info) == [kind |-> "return", text |-> "", info |-> info]
LibRaise(type, text) == [kind |-> type, text |-> text, info |-> Absent]
NoCall == [kind |-> "none", text |-> "", info |-> Absent]

\* One entry of info['formats'] as the download-link code reads it.  yt-dlp
\* gives every format a format_id; a 'url', when present, is a non-empty
\* string; 'ext' may be missing.
LinkFormats ==
    [format_id : FormatIds, url : {Absent} \cup EntryUrls, ext : {Absent} \cup Exts]

\* What ydl.prepare_filename(info, outtmpl='%(title)s.%(ext)s') returns.
PreparedNames == {<<"Title", ".", "webm">>, <<"Title">>}

\* The info dicts of extract_info under the download-link options, with at
\* most n formats.  has_formats is "'formats' in info".
LinkInfos(n) ==
    [has_formats : {TRUE}, formats : SeqUpTo(LinkFormats, n),
     format_id : {Absent} \cup FormatIds, url : {Absent, "http://t"},
     ext : {Absent} \cup Exts, title : Titles, prepared : PreparedNames]
    \cup [has_formats : {FALSE}, formats : {<<>>},
          format_id : {Absent} \cup FormatIds, url : {Absent, "http://t"},
          ext : {Absent} \cup Exts, title : Titles, prepared : PreparedNames]

\* One entry of info_dict['formats'] as the video-info code reads it; ok says
\* whether VideoFormatInfo(...) accepts the entry's field types.
InfoFormats == [format_id : FormatIds, ext : {Absent} \cup Exts, ok : BOOLEAN]

InfoInfos(n) ==
    [has_formats : {TRUE}, formats : SeqUpTo(InfoFormats, n), title : Titles]
    \cup [has_formats : {FALSE}, formats : {<<>>}, title : Titles]

\* The info dicts the interleaving specification draws from: one per path
\* through the handlers.
CoreLinkInfos ==
    {i \in LinkInfos(1) :
        /\ i.format_id = Absent /\ i.url = Absent /\ i.ext = Absent
        /\ i.title = "Title" /\ i.prepared = <<"Title", ".", "webm">>
        /\ i.has_formats
        /\ \A k \in 1..Len(i.formats) :
              /\ i.formats[k].ext = Absent /\ i.formats[k].url # "http://b"
              /\ i.formats[k].format_id = "18"}

CoreInfoInfos ==
    {i \in InfoInfos(1) :
        /\ i.title = "Title" /\ i.has_formats
        /\ \A k \in 1..Len(i.formats) :
              i.formats[k].ext = Absent /\ i.formats[k].format_id = "18"}

LibRaiseOutcomes == {LibRaise(t, x) : t \in LibRaises, x \in ExcTexts}

----------------------------------------------------------------------------
(* The result of running a piece of Python: a value returned or an          *)
(* exception raised.                                                        *)

Return(v) == [kind |-> "return", value |-> v, exc |-> NoExc]
Raise(e) == [kind |-> "raise", value |-> Absent, exc |-> e]
NoResult == [kind |-> "none", value |-> Absent, exc |-> NoExc]

----------------------------------------------------------------------------
(* yt-dlp service: get_download_link_blocking *)

NoFormat == [format_id |-> Absent, url |-> Absent, ext |-> Absent]
NoSelection == [some |-> FALSE, f |-> NoFormat]

\* Variant of FindFormat without the break: the last matching entry wins.
RECURSIVE FindLastFormat(_, _, _)
FindLastFormat(formats, format_itag, i) ==
    IF i > Len(formats) THEN NoSelection
    ELSE LET later == FindLastFormat(formats, format_itag, i + 1) IN
         IF later.some THEN later
         ELSE IF formats[i].format_id = format_itag
              THEN [some |-> TRUE, f |-> formats[i]]
              ELSE NoSelection

\* for f in info['formats']: if f.get('format_id') == format_itag: ...; break
RECURSIVE FindFormat(_, _, _)
FindFormat(formats, format_itag, i) ==
    IF i > Len(formats) THEN NoSelection
    ELSE IF formats[i].format_id = format_itag
         THEN [some |-> TRUE, f |-> formats[i]]
         ELSE FindFormat(formats, format_itag, i + 1)

TopLevelFormat(info) ==
    [format_id |-> info.format_id, url |-> info.url, ext |-> info.ext]

\* selected_format_info
SelectFormat(info, format_itag) ==
    LET fromList == IF info.has_formats
                    THEN FindFormat(info.formats, format_itag, 1)
                    ELSE NoSelection
    IN IF ~fromList.some /\ info.format_id = format_itag
       THEN [some |-> TRUE, f |-> TopLevelFormat(info)]
       ELSE fromList

\* if selected_format_info and 'url' in selected_format_info
HasDownloadUrl(sel) == sel.some /\ sel.f.url # Absent

\* '.' in filename
HasDot(name) == "." \in Range(name)

\* Variant of DownloadFilename without the "'.' not in filename" repair.
DownloadFilenameNoDefault(info, f) == info.prepared

\* filename, with the mp4 default when the templated name has no '.'
DownloadFilename(info, f) ==
    IF ~HasDot(info.prepared)
    THEN <<DictGet(info.title, "video"), ".", DictGet(f.ext, "mp4")>>
    ELSE info.prepared

\* The try block: extract_info, the selection, the returned dict or the 404.
LinkTryBlock(out, format_itag) ==
    IF out.kind # "return" THEN Raise(LibException(out.kind, out.text))
    ELSE LET sel == SelectFormat(out.info, format_itag) IN
         IF HasDownloadUrl(sel)
         THEN Return([keys |-> {"url", "filename"}, url |-> sel.f.url,
                      filename |-> DownloadFilename(out.info, sel.f)])
         ELSE Raise(HTTPException(404, <<"no download link for format">>))

\* except yt_dlp.utils.DownloadError ... except Exception: the second clause
\* also catches the HTTPException raised inside the try block.
LinkExcept(e) ==
    IF e.type = "DownloadError"
    THEN HTTPException(500, <<"yt-dlp error: ">> \o StrOf(e))
    ELSE HTTPException(500, <<"unexpected error: ">> \o StrOf(e))

get_download_link_blocking(out, format_itag) ==
    LET r == LinkTryBlock(out, format_itag) IN
    IF r.kind = "raise" THEN Raise(LinkExcept(r.exc)) ELSE r

\* The endpoint after the await: the response built from what the worker
\* thread returned or raised.
LinkEndpointResponse(res) ==
    IF res.kind = "raise"
    THEN IF res.exc.type = "HTTPException"
         THEN ErrorResponse(res.exc)
         ELSE ErrorResponse(HTTPException(500, <<"internal error: ">> \o StrOf(res.exc)))
    ELSE IF res.value.keys # {} /\ "url" \in res.value.keys /\ "filename" \in res.value.keys
         THEN OkResponse([formats |-> <<>>, url |-> res.value.url,
                          filename |-> res.value.filename])
         ELSE ErrorResponse(HTTPException(500, <<"no link from the handler">>))

----------------------------------------------------------------------------
(* yt-dlp service: fetch_video_info_blocking and the video-info endpoint *)

\* Variant of InfoExcept whose detail leaves out str(e).
InfoExceptGeneric(e) ==
    IF e.type = "DownloadError"
    THEN HTTPException(500, <<"YouTube error">>)
    ELSE HTTPException(500, <<"unexpected error">>)

InfoExcept(e) ==
    IF e.type = "DownloadError"
    THEN HTTPException(500, <<"YouTube error: ">> \o StrOf(e))
    ELSE HTTPException(500, <<"unexpected error: ">> \o StrOf(e))

fetch_video_info_blocking(out) ==
    IF out.kind # "return" THEN Raise(InfoExcept(LibException(out.kind, out.text)))
    ELSE Return(out.info)

\* VideoFormatInfo(itag=f_data.get('format_id', 'N/A'), ext=f_data.get('ext', 'N/A'), ...)
VideoFormatInfo(f_data) ==
    [itag |-> DictGet(f_data.format_id, "N/A"), ext |-> DictGet(f_data.ext, "N/A")]

\* Variant of ShapeFormats that skips an entry the model rejects.
RECURSIVE ShapeFormatsSkipInvalid(_, _, _)
ShapeFormatsSkipInvalid(formats, i, formats_info) ==
    IF i > Len(formats) THEN Return(formats_info)
    ELSE IF ~formats[i].ok
         THEN ShapeFormatsSkipInvalid(formats, i + 1, formats_info)
         ELSE ShapeFormatsSkipInvalid(formats, i + 1,
                                      Append(formats_info, VideoFormatInfo(formats[i])))

\* for f_data in info_dict['formats']: formats_info.append(VideoFormatInfo(...));
\* an entry the model rejects raises out of the loop.
RECURSIVE ShapeFormats(_, _, _)
ShapeFormats(formats, i, formats_info) ==
    IF i > Len(formats) THEN Return(formats_info)
    ELSE IF ~formats[i].ok
         THEN Raise(LibException("ValidationError", "validation error"))
         ELSE ShapeFormats(formats, i + 1, Append(formats_info, VideoFormatInfo(formats[i])))

\* The endpoint's try block after the await.
InfoTryBlock(info_dict) ==
    LET shaped == IF info_dict.has_formats
                  THEN ShapeFormats(info_dict.formats, 1, <<>>)
                  ELSE Return(<<>>)
    IN IF shaped.kind = "raise" THEN shaped
       ELSE IF shaped.value = <<>>
            THEN Raise(HTTPException(404, <<"no formats for this video">>))
            ELSE Return([formats |-> shaped.value, url |-> Absent, filename |-> <<>>])

\* except HTTPException: raise; except Exception: 500
InfoEndpointResponse(res) ==
    LET r == IF res.kind = "raise" THEN res ELSE InfoTryBlock(res.value) IN
    IF r.kind = "raise"
    THEN IF r.exc.type = "HTTPException"
         THEN ErrorResponse(r.exc)
         ELSE ErrorResponse(HTTPException(500, <<"internal error: ">> \o StrOf(r.exc)))
    ELSE OkResponse(r.value)

----------------------------------------------------------------------------
(* pytube service: both endpoints run wholly inside try/except Exception *)

StreamItags == {18, 22}
Resolutions == {360, 720}

\* int(itag): ValueError for a string that is no number.
IsNumeric(itag) == itag \in {"18", "22"}
IntOf(itag) == CASE itag = "18" -> 18 [] itag = "22" -> 22

\* One pytube Stream.
Streams ==
    [itag : StreamItags, progressive : BOOLEAN, subtype : {"mp4", "webm"},
     resolution : Resolutions]

\* stream.url: the stream's own direct link
StreamUrl(stream) ==
    CASE stream.itag = 18 -> "http://stream/18" [] stream.itag = 22 -> "http://stream/22"

\* The YouTube object: its streams in the library's order, its title.
PtInfos(n) == [streams : SeqUpTo(Streams, n), title : {<<"My", " ", "Title">>}]

CorePtInfos ==
    {i \in PtInfos(1) :
        \A k \in 1..Len(i.streams) :
            i.streams[k].itag = 18 /\ i.streams[k].resolution = 360
            /\ (i.streams[k].progressive <=> i.streams[k].subtype = "mp4")}

\* StreamQuery.filter(progressive=True, file_extension='mp4')
RECURSIVE FilterProgressiveMp4(_)
FilterProgressiveMp4(streams) ==
    IF streams = <<>> THEN <<>>
    ELSE LET rest == FilterProgressiveMp4(Tail(streams)) IN
         IF Head(streams).progressive /\ Head(streams).subtype = "mp4"
         THEN <<Head(streams)>> \o rest
         ELSE rest

\* sorted(..., key=resolution): a stable insertion of x into an ascending list
RECURSIVE InsertByResolution(_, _)
InsertByResolution(x, sorted) ==
    IF sorted = <<>> THEN <<x>>
    ELSE IF x.resolution < Head(sorted).resolution
         THEN <<x>> \o sorted
         ELSE <<Head(sorted)>> \o InsertByResolution(x, Tail(sorted))

RECURSIVE OrderByResolution(_)
OrderByResolution(streams) ==
    IF streams = <<>> THEN <<>>
    ELSE InsertByResolution(streams[Len(streams)],
                            OrderByResolution(SubSeq(streams, 1, Len(streams) - 1)))

\* StreamQuery.desc(): the list reversed
Desc(streams) == [i \in 1..Len(streams) |-> streams[Len(streams) + 1 - i]]

\* VideoFormatInfo(itag=str(stream.itag), ...)
PtVideoFormatInfo(stream) == [itag |-> ToString(stream.itag), ext |-> stream.subtype]

PtFormatsInfo(streams) ==
    LET q == Desc(OrderByResolution(FilterProgressiveMp4(streams)))
    IN [i \in 1..Len(q) |-> PtVideoFormatInfo(q[i])]

\* yt.streams.get_by_itag(n): the itag index keeps the last stream of an itag.
RECURSIVE GetByItag(_, _, _)
GetByItag(streams, n, i) ==
    IF i = 0 THEN [some |-> FALSE, stream |-> Absent]
    ELSE IF streams[i].itag = n THEN [some |-> TRUE, stream |-> streams[i]]
         ELSE GetByItag(streams, n, i - 1)

\* yt.title.replace(' ', '_')
ReplaceSpaces(title) == [i \in 1..Len(title) |-> IF title[i] = " " THEN "_" ELSE title[i]]

\* f"{yt.title.replace(' ', '_')}_{stream.resolution or stream.abr}.{stream.subtype}"
PtFilename(title, stream) ==
    ReplaceSpaces(title) \o <<"_", ToString(stream.resolution), ".", stream.subtype>>

\* except Exception as e: raise HTTPException(500, ...); HTTPException is an
\* Exception, so the 404 raised inside the try block lands here too.
PtExcept(e) == HTTPException(500, <<"server error: ">> \o StrOf(e))

PtInfoTryBlock(out) ==
    IF out.kind # "return" THEN Raise(LibException(out.kind, out.text))
    ELSE LET formats_info == PtFormatsInfo(out.info.streams) IN
         IF formats_info = <<>>
         THEN Raise(HTTPException(404, <<"no mp4 formats for this video">>))
         ELSE Return([formats |-> formats_info, url |-> Absent, filename |-> <<>>])

PtLinkTryBlock(out, itag) ==
    IF out.kind # "return" THEN Raise(LibException(out.kind, out.text))
    ELSE IF ~IsNumeric(itag)
         THEN Raise(LibException("ValueError", "invalid literal for int()"))
         ELSE LET found == GetByItag(out.info.streams, IntOf(itag), Len(out.info.streams)) IN
              IF ~found.some
              THEN Raise(HTTPException(404, <<"itag not found for this video">>))
              ELSE Return([formats |-> <<>>, url |-> StreamUrl(found.stream),
                           filename |-> PtFilename(out.info.title, found.stream)])

\* The response of a pytube endpoint from the result of its try block.
PtEndpointResponse(r) ==
    IF r.kind = "raise" THEN ErrorResponse(PtExcept(r.exc)) ELSE OkResponse(r.value)

----------------------------------------------------------------------------
(* The running services.  Each service is a process of its own with one     *)
(* event-loop thread (uvicorn's); a coroutine holds that thread from one    *)
(* await to the next.                                                       *)

LoopThread == "MainThread"
PoolThread == "ThreadPoolExecutor"

VARIABLES
    req,      \* req[r]: the request's service, endpoint and query parameters
    pc,       \* pc[r]: "idle", "sent", "calling", "returned", "done"
    thread,   \* thread[r]: the thread the request's library call runs on
    calls,    \* calls[r]: library calls started for the request
    lib,      \* lib[r]: what the request's library call returned or raised
    result,   \* result[r]: what the worker thread handed back to the coroutine
    resp,     \* resp[r]: the response sent to the client
    loop,     \* loop[s]: the request whose coroutine holds service s's loop thread, or 0
    rt,       \* rt[q]: a Rutube request: its step, file, write offset, bytes served
    fs        \* fs[path]: the content of a file on the Rutube service's disk

vars == <<req, pc, thread, calls, lib, result, resp, loop, rt, fs>>

httpVars == <<req, pc, thread, calls, lib, result, resp, loop>>
rtVars == <<rt, fs>>

\* The requests a client can send: video-info carries no itag.
Requests ==
    [svc : Services, ep : {"info"}, url : UrlParams, itag : {Missing}]
    \cup [svc : Services, ep : {"link"}, url : UrlParams, itag : ItagParams]

\* A required query parameter (Query(...), or a parameter without default)
\* is not in the request.
ParamsMissing(q) == q.url = Missing \/ (q.ep = "link" /\ q.itag = Missing)

\* if not url  /  if not url or not itag
ParamsEmpty(q) == q.url = "" \/ (q.ep = "link" /\ q.itag = "")

Validated(q) == ~ParamsMissing(q) /\ ~ParamsEmpty(q)

\* The thread each service runs its library call on: asyncio.to_thread in the
\* yt-dlp service, the coroutine itself in the pytube service.
CallThread(svc) == IF svc = "ytdlp" THEN PoolThread ELSE LoopThread

\* Variant of RetriesAfter: one more extract_info after a call that raised.
RetriesAfterRaise(out) == IF out.kind = "return" THEN 0 ELSE 1

\* Library calls the blocking function starts again after the outcome of its
\* call: none, the except clauses raise.
RetriesAfter(out) == 0

LoopFree(r) == loop[req[r].svc] = 0

\* Variant of AwaitedResult: one slot shared by the endpoint's requests, read
\* as the result of the first request of that endpoint whose worker is done.
AwaitedResultShared(r) ==
    LET waiting == {q \in Req : /\ pc[q] = "returned" /\ req[q].svc = req[r].svc
                                /\ req[q].ep = req[r].ep}
    IN result[CHOOSE q \in waiting : \A o \in waiting : q <= o]

\* What "await asyncio.to_thread(...)" hands to request r's coroutine: the
\* value returned, or the exception raised, by the call r itself started.
AwaitedResult(r) == result[r]

\* Request r's library call is in progress.
Calling(r, svc, ep) == pc[r] = "calling" /\ req[r].svc = svc /\ req[r].ep = ep

Finish(r, response) ==
    /\ resp' = [resp EXCEPT ![r] = response]
    /\ pc' = [pc EXCEPT ![r] = "done"]

\* FastAPI rejects a request that lacks a required parameter; the handler is
\* not entered.
RejectMissing(r) ==
    /\ pc[r] = "sent" /\ LoopFree(r)
    /\ ParamsMissing(req[r])
    /\ Finish(r, ValidationErrorResponse)
    /\ UNCHANGED <<req, thread, calls, lib, result, loop, rt, fs>>

\* raise HTTPException(status_code=400, ...) before the try block
RejectEmpty(r) ==
    /\ pc[r] = "sent" /\ LoopFree(r)
    /\ ~ParamsMissing(req[r]) /\ ParamsEmpty(req[r])
    /\ Finish(r, ErrorResponse(HTTPException(400, <<"parameter must not be empty">>)))
    /\ UNCHANGED <<req, thread, calls, lib, result, loop, rt, fs>>

\* yt-dlp service: await asyncio.to_thread(<blocking function>, ...): the
\* library call starts on a pool thread and the coroutine gives up the loop.
YtStart(r) ==
    /\ pc[r] = "sent" /\ LoopFree(r)
    /\ req[r].svc = "ytdlp" /\ Validated(req[r])
    /\ pc' = [pc EXCEPT ![r] = "calling"]
    /\ thread' = [thread EXCEPT ![r] = CallThread("ytdlp")]
    /\ calls' = [calls EXCEPT ![r] = @ + 1]
    /\ UNCHANGED <<req, lib, result, resp, loop, rt, fs>>

\* The pool thread runs fetch_video_info_blocking to its end.
YtInfoWorker(r, out) ==
    /\ Calling(r, "ytdlp", "info")
    /\ lib' = [lib EXCEPT ![r] = out]
    /\ result' = [result EXCEPT ![r] = fetch_video_info_blocking(out)]
    /\ calls' = [calls EXCEPT ![r] = @ + RetriesAfter(out)]
    /\ pc' = [pc EXCEPT ![r] = "returned"]
    /\ UNCHANGED <<req, thread, resp, loop, rt, fs>>

\* The pool thread runs get_download_link_blocking to its end.
YtLinkWorker(r, out) ==
    /\ Calling(r, "ytdlp", "link")
    /\ lib' = [lib EXCEPT ![r] = out]
    /\ result' = [result EXCEPT ![r] = get_download_link_blocking(out, req[r].itag)]
    /\ calls' = [calls EXCEPT ![r] = @ + RetriesAfter(out)]
    /\ pc' = [pc EXCEPT ![r] = "returned"]
    /\ UNCHANGED <<req, thread, resp, loop, rt, fs>>

\* The coroutine resumes on the loop thread with the worker's result.
YtInfoFinish(r) ==
    /\ pc[r] = "returned" /\ LoopFree(r)
    /\ req[r].svc = "ytdlp" /\ req[r].ep = "info"
    /\ Finish(r, InfoEndpointResponse(AwaitedResult(r)))
    /\ UNCHANGED <<req, thread, calls, lib, result, loop, rt, fs>>

YtLinkFinish(r) ==
    /\ pc[r] = "returned" /\ LoopFree(r)
    /\ req[r].svc = "ytdlp" /\ req[r].ep = "link"
    /\ Finish(r, LinkEndpointResponse(AwaitedResult(r)))
    /\ UNCHANGED <<req, thread, calls, lib, result, loop, rt, fs>>

\* pytube service: the coroutine calls the library itself and awaits nothing,
\* so it holds the loop thread until it has answered.
PtStart(r) ==
    /\ pc[r] = "sent" /\ LoopFree(r)
    /\ req[r].svc = "pytube" /\ Validated(req[r])
    /\ pc' = [pc EXCEPT ![r] = "calling"]
    /\ thread' = [thread EXCEPT ![r] = CallThread("pytube")]
    /\ calls' = [calls EXCEPT ![r] = @ + 1]
    /\ loop' = [loop EXCEPT !["pytube"] = r]
    /\ UNCHANGED <<req, lib, result, resp, rt, fs>>

PtInfoRun(r, out) ==
    /\ Calling(r, "pytube", "info")
    /\ lib' = [lib EXCEPT ![r] = out]
    /\ Finish(r, PtEndpointResponse(PtInfoTryBlock(out)))
    /\ loop' = [loop EXCEPT !["pytube"] = 0]
    /\ UNCHANGED <<req, thread, calls, result, rt, fs>>

PtLinkRun(r, out) ==
    /\ Calling(r, "pytube", "link")
    /\ lib' = [lib EXCEPT ![r] = out]
    /\ Finish(r, PtEndpointResponse(PtLinkTryBlock(out, req[r].itag)))
    /\ loop' = [loop EXCEPT !["pytube"] = 0]
    /\ UNCHANGED <<req, thread, calls, result, rt, fs>>

\* The steps of the two YouTube services, the library's info dicts drawn
\* from the given sets.
HttpNext(infoInfos, linkInfos, ptInfos) ==
    \E r \in Req :
        \/ RejectMissing(r)
        \/ RejectEmpty(r)
        \/ YtStart(r)
        \/ Calling(r, "ytdlp", "info") /\ \E i \in infoInfos : YtInfoWorker(r, LibReturn(i))
        \/ \E e \in LibRaiseOutcomes : YtInfoWorker(r, e)
        \/ Calling(r, "ytdlp", "link") /\ \E i \in linkInfos : YtLinkWorker(r, LibReturn(i))
        \/ \E e \in LibRaiseOutcomes : YtLinkWorker(r, e)
        \/ YtInfoFinish(r)
        \/ YtLinkFinish(r)
        \/ PtStart(r)
        \/ Calling(r, "pytube", "info") /\ \E i \in ptInfos : PtInfoRun(r, LibReturn(i))
        \/ \E e \in LibRaiseOutcomes : PtInfoRun(r, e)
        \/ Calling(r, "pytube", "link") /\ \E i \in ptInfos : PtLinkRun(r, LibReturn(i))
        \/ \E e \in LibRaiseOutcomes : PtLinkRun(r, e)

HttpInit(sent) ==
    /\ req \in [Req -> Requests]
    /\ pc = [r \in Req |-> IF r \in sent THEN "sent" ELSE "idle"]
    /\ \A r \in Req \ sent : req[r] = [svc |-> "ytdlp", ep |-> "info", url |-> Missing, itag |-> Missing]
    /\ thread = [r \in Req |-> "none"]
    /\ calls = [r \in Req |-> 0]
    /\ lib = [r \in Req |-> NoCall]
    /\ result = [r \in Req |-> NoResult]
    /\ resp = [r \in Req |-> NoResponse]
    /\ loop = [s \in Services |-> 0]

----------------------------------------------------------------------------
(* Rutube service: get_video_info is a plain def, so each request runs on a *)
(* thread of the server's pool; the file is written in chunks and then      *)
(* streamed back in chunks by FileResponse.                                 *)

RtReq == 1..NumRtReq

\* The bytes of request q's video, chunk k; a hole is what a write past the
\* end of the file leaves before it.
Chunk(q, k) == [owner |-> q, k |-> k]
Hole == Chunk(0, 0)
Video(q) == [k \in 1..ChunksPerVideo |-> Chunk(q, k)]

\* Variant of FileName: a file of the request's own, named by its number.
FileNamePerRequest(q) == ToString(q)

\* open('video.mp4', 'wb') and FileResponse(path='video.mp4'): the file a
\* request writes and serves.
FileName(q) == "video.mp4"

\* f.write(chunk) at the handle's own offset
WriteAt(content, offset, chunk) ==
    IF offset < Len(content)
    THEN [content EXCEPT ![offset + 1] = chunk]
    ELSE content \o [i \in 1..(offset - Len(content)) |-> Hole] \o <<chunk>>

RtIdle == [pc |-> "idle", path |-> Absent, pos |-> 0, rpos |-> 0, served |-> <<>>, status |-> 0]

RtInit(sent) ==
    /\ rt = [q \in RtReq |-> IF q \in sent THEN [RtIdle EXCEPT !.pc = "sent"] ELSE RtIdle]
    /\ fs = [p \in {} |-> <<>>]

\* with open('video.mp4', 'wb') as f: the file is created or truncated
RtOpen(q) ==
    /\ rt[q].pc = "sent"
    /\ rt' = [rt EXCEPT ![q].pc = "writing", ![q].path = FileName(q), ![q].pos = 0]
    /\ fs' = [p \in DOMAIN fs \cup {FileName(q)} |-> IF p = FileName(q) THEN <<>> ELSE fs[p]]
    /\ UNCHANGED httpVars

\* rt_client.get_best().download(stream=f) writes the next chunk
RtWrite(q) ==
    /\ rt[q].pc = "writing" /\ rt[q].pos < ChunksPerVideo
    /\ fs' = [fs EXCEPT ![rt[q].path] = WriteAt(@, rt[q].pos, Chunk(q, rt[q].pos + 1))]
    /\ rt' = [rt EXCEPT ![q].pos = @ + 1]
    /\ UNCHANGED httpVars

\* The library raises (Rutube(video_url), get_best or download): the handler
\* has no try block, the file stays as it is and the server answers 500.
RtRaise(q) ==
    /\ rt[q].pc \in {"sent", "writing"}
    /\ rt' = [rt EXCEPT ![q].pc = "done", ![q].status = 500]
    /\ UNCHANGED <<fs>>
    /\ UNCHANGED httpVars

\* The with block ends; return FileResponse(path='video.mp4', ...)
RtReturn(q) ==
    /\ rt[q].pc = "writing" /\ rt[q].pos = ChunksPerVideo
    /\ rt' = [rt EXCEPT ![q].pc = "serving", ![q].rpos = 0, ![q].status = 200]
    /\ UNCHANGED <<fs>>
    /\ UNCHANGED httpVars

\* FileResponse sends the next chunk of the file as it is on disk now
RtSend(q) ==
    /\ rt[q].pc = "serving" /\ rt[q].rpos < Len(fs[rt[q].path])
    /\ rt' = [rt EXCEPT ![q].served = Append(@, fs[rt[q].path][rt[q].rpos + 1]),
                        ![q].rpos = @ + 1]
    /\ UNCHANGED <<fs>>
    /\ UNCHANGED httpVars

\* FileResponse reaches the end of the file
RtSendEnd(q) ==
    /\ rt[q].pc = "serving" /\ rt[q].rpos >= Len(fs[rt[q].path])
    /\ rt' = [rt EXCEPT ![q].pc = "done"]
    /\ UNCHANGED <<fs>>
    /\ UNCHANGED httpVars

----------------------------------------------------------------------------
(* Specifications *)

\* Concurrent requests to the two YouTube services.
Init == HttpInit(Req) /\ RtInit({})

Next == HttpNext(CoreInfoInfos, CoreLinkInfos, CorePtInfos)

Spec == Init /\ [][Next]_vars

\* One request, every info dict of up to MaxFormats formats.
InitOne == HttpInit({1}) /\ RtInit({})

NextOne == HttpNext(InfoInfos(MaxFormats), LinkInfos(MaxFormats), PtInfos(MaxFormats))

SpecOne == InitOne /\ [][NextOne]_vars

\* Concurrent requests to the Rutube service.
InitRutube == HttpInit({}) /\ RtInit(RtReq)

NextRutube ==
    \E q \in RtReq :
        \/ RtOpen(q)
        \/ RtWrite(q)
        \/ RtRaise(q)
        \/ RtReturn(q)
        \/ RtSend(q)
        \/ RtSendEnd(q)

SpecRutube == InitRutube /\ [][NextRutube]_vars

----------------------------------------------------------------------------
(* Properties.  They are stated over the request, what the library handed   *)
(* back and the response, not through the operators that model the code.    *)

Done(r) == pc[r] = "done"

NonEmptyParams(r) ==
    /\ req[r].url \notin {Missing, ""}
    /\ req[r].ep = "link" => req[r].itag \notin {Missing, ""}

LibReturned(r) == lib[r].kind = "return"
LibRaised(r) == lib[r].kind \in LibRaises

Min(S) == CHOOSE x \in S : \A y \in S : x <= y

\* The list entries of a yt-dlp info dict whose format_id is the itag.
Matching(info, itag) ==
    IF info.has_formats
    THEN {k \in 1..Len(info.formats) : info.formats[k].format_id = itag}
    ELSE {}

\* The format the resolution policy names: the first list entry with the
\* itag, else the top-level result if it has the itag, else none.
PolicyFormat(info, itag) ==
    IF Matching(info, itag) # {}
    THEN [some |-> TRUE, url |-> info.formats[Min(Matching(info, itag))].url,
          ext |-> info.formats[Min(Matching(info, itag))].ext]
    ELSE IF info.format_id = itag
         THEN [some |-> TRUE, url |-> info.url, ext |-> info.ext]
         ELSE [some |-> FALSE, url |-> Absent, ext |-> Absent]

\* No format of the library's answer resolves the requested itag to a URL.
NoFormatResolves(r) ==
    IF req[r].svc = "ytdlp"
    THEN ~PolicyFormat(lib[r].info, req[r].itag).some
         \/ PolicyFormat(lib[r].info, req[r].itag).url = Absent
    ELSE /\ IsNumeric(req[r].itag)
         /\ \A k \in 1..Len(lib[r].info.streams) :
               lib[r].info.streams[k].itag # IntOf(req[r].itag)

\* C1: a download-link request with non-empty url and itag whose library call
\* returns, but where no format matches the itag (or the match has no 'url'),
\* is answered with status 404, in the yt-dlp and in the pytube service.
C1_NoMatchingFormatIs404 ==
    \A r \in Req :
        (Done(r) /\ req[r].ep = "link" /\ NonEmptyParams(r) /\ LibReturned(r)
         /\ NoFormatResolves(r))
        => resp[r].status = 404

\* The library's answer holds no usable format for the video-info endpoint.
ZeroUsableFormats(r) ==
    IF req[r].svc = "ytdlp"
    THEN ~lib[r].info.has_formats \/ lib[r].info.formats = <<>>
    ELSE \A k \in 1..Len(lib[r].info.streams) :
            ~(lib[r].info.streams[k].progressive /\ lib[r].info.streams[k].subtype = "mp4")

\* C2: a video-info request with a non-empty url whose library call returns
\* zero usable formats is answered with status 404, in both services.
C2_ZeroFormatsIs404 ==
    \A r \in Req :
        (Done(r) /\ req[r].ep = "info" /\ NonEmptyParams(r) /\ LibReturned(r)
         /\ ZeroUsableFormats(r))
        => resp[r].status = 404

\* C3: a request whose url (or, on download-link, itag) is missing or empty
\* is answered with status 400 and no library call is started for it.
C3_MissingOrEmptyIs400 ==
    \A r \in Req :
        (pc[r] # "idle" /\ ~NonEmptyParams(r))
        => /\ calls[r] = 0
           /\ pc[r] \in {"sent", "done"}
           /\ Done(r) => resp[r].status = 400

\* C4: when the library call of a request raises, the request is answered
\* with status 500 and a detail that embeds the text of the exception, with
\* no result in the body; before the answer nothing has been sent.
C4_LibraryRaiseIs500 ==
    \A r \in Req :
        /\ (Done(r) /\ LibRaised(r))
           => /\ resp[r].status = 500
              /\ lib[r].text \in Range(resp[r].detail)
              /\ resp[r].body = NoBody
        /\ ~Done(r) => resp[r] = NoResponse

\* C4 witness: a yt-dlp request and a pytube request both answered after
\* their library call raised.
C4_Witness ==
    \E r1, r2 \in Req :
        /\ Done(r1) /\ LibRaised(r1) /\ req[r1].svc = "ytdlp" /\ lib[r1].kind = "DownloadError"
        /\ Done(r2) /\ LibRaised(r2) /\ req[r2].svc = "pytube"

\* C5: a 200 response of video-info has a non-empty available_formats; in the
\* yt-dlp service it has one entry per entry of the library's 'formats', in
\* the same order, with that entry's format_id as itag.
C5_FormatsCompleteInOrder ==
    \A r \in Req :
        (Done(r) /\ req[r].ep = "info" /\ resp[r].status = 200)
        => /\ LibReturned(r)
           /\ Len(resp[r].body.formats) > 0
           /\ req[r].svc = "ytdlp"
              => /\ Len(resp[r].body.formats) = Len(lib[r].info.formats)
                 /\ \A k \in 1..Len(lib[r].info.formats) :
                       resp[r].body.formats[k].itag = lib[r].info.formats[k].format_id

\* C5 witness: a 200 response of the yt-dlp service with two formats of
\* different format_id.
C5_Witness ==
    \E r \in Req :
        /\ Done(r) /\ req[r].svc = "ytdlp" /\ req[r].ep = "info" /\ resp[r].status = 200
        /\ Len(resp[r].body.formats) >= 2
        /\ resp[r].body.formats[1].itag # resp[r].body.formats[2].itag

\* A name that holds a '.' followed by a container extension.
ContainerExts == Exts \cup {"mp4"}
HasExtension(name) ==
    \E k \in 1..(Len(name) - 1) : name[k] = "." /\ name[k + 1] \in ContainerExts

C7_CallOffTheLoopThread ==
    \A r \in Req :
        pc[r] = "calling" => (thread[r] # LoopThread /\ loop[req[r].svc] = 0)

\* C8: the yt-dlp download-link resolution uses the first list entry whose
\* format_id equals the itag, the top-level result only when no entry matches
\* and its own format_id equals the itag, and otherwise nothing; the returned
\* direct_download_url is the 'url' of that format and of no other.
C8_ExactFirstMatch ==
    \A r \in Req :
        (Done(r) /\ req[r].svc = "ytdlp" /\ req[r].ep = "link" /\ LibReturned(r))
        => LET want == PolicyFormat(lib[r].info, req[r].itag) IN
           /\ resp[r].status = 200 <=> (want.some /\ want.url # Absent)
           /\ resp[r].status = 200 => resp[r].body.url = want.url

\* C8 witness: two list entries carry the itag with different urls, and the
\* request is answered 200.
C8_Witness ==
    \E r \in Req :
        /\ Done(r) /\ req[r].svc = "ytdlp" /\ req[r].ep = "link" /\ resp[r].status = 200
        /\ Cardinality(Matching(lib[r].info, req[r].itag)) >= 2
        /\ \E j, k \in Matching(lib[r].info, req[r].itag) :
              lib[r].info.formats[j].url # lib[r].info.formats[k].url

\* C9: every Rutube request writes to and serves the one file 'video.mp4'; a
\* response differs from the request's own video only when another request
\* has used the file too.
C9_OneSharedFile ==
    /\ DOMAIN fs \subseteq {"video.mp4"}
    /\ \A q \in RtReq :
          /\ rt[q].pc \in {"writing", "serving"} => rt[q].path = "video.mp4"
          /\ (rt[q].pc = "done" /\ rt[q].status = 200 /\ rt[q].served # Video(q))
             => \E o \in RtReq \ {q} : rt[o].path # Absent

\* C9 witness: a finished 200 response that served a chunk written by another
\* request.
C9_Witness ==
    \E q \in RtReq :
        /\ rt[q].pc = "done" /\ rt[q].status = 200
        /\ \E k \in 1..Len(rt[q].served) : rt[q].served[k].owner \notin {q, 0}

\* C10: a yt-dlp request that passes validation starts the library call
\* exactly once, whatever other requests did with the same URL and whether or
\* not the call raised; a request whose call raised ends with an error.
C10_LibraryCalledOnce ==
    \A r \in Req :
        req[r].svc = "ytdlp"
        => /\ calls[r] <= 1
           /\ (NonEmptyParams(r) /\ pc[r] \in {"calling", "returned", "done"}) => calls[r] = 1
           /\ (Done(r) /\ LibRaised(r)) => resp[r].status >= 400

\* C10 witness: two yt-dlp requests for the same URL are both answered, one
\* after its call raised and one with 200, each after one library call.
C10_Witness ==
    \E r1, r2 \in Req :
        /\ r1 # r2 /\ req[r1].svc = "ytdlp" /\ req[r2].svc = "ytdlp"
        /\ req[r1].url = req[r2].url /\ req[r1].ep = req[r2].ep
        /\ Done(r1) /\ LibRaised(r1) /\ resp[r1].status = 500 /\ calls[r1] = 1
        /\ Done(r2) /\ resp[r2].status = 200 /\ calls[r2] = 1

\* The response that request r's own parameters and the outcome of its own
\* library call lead to in the yt-dlp service.
OwnResult(r) ==
    IF req[r].ep = "info" THEN fetch_video_info_blocking(lib[r])
    ELSE get_download_link_blocking(lib[r], req[r].itag)

OwnResponse(r) ==
    IF req[r].url = Missing \/ (req[r].ep = "link" /\ req[r].itag = Missing)
    THEN ValidationErrorResponse
    ELSE IF ~NonEmptyParams(r)
         THEN ErrorResponse(HTTPException(400, <<"parameter must not be empty">>))
         ELSE IF req[r].ep = "info" THEN InfoEndpointResponse(OwnResult(r))
              ELSE LinkEndpointResponse(OwnResult(r))

\* C11: in the yt-dlp service, under every interleaving, what a request's
\* worker thread returned or raised is what its own call leads to, and the
\* response of an answered request is the one its own parameters and its own
\* call's outcome lead to, whatever the other requests did.
C11_ResponseIsTheRequestsOwn ==
    \A r \in Req :
        req[r].svc = "ytdlp"
        => /\ pc[r] = "returned" => result[r] = OwnResult(r)
           /\ Done(r) => resp[r] = OwnResponse(r)
           /\ ~Done(r) => resp[r] = NoResponse

\* C11 witness: two yt-dlp requests with the same parameters; one is answered
\* 200 from its own call while the exception raised on the other's worker
\* thread is still waiting to be delivered.
C11_Witness ==
    \E r1, r2 \in Req :
        /\ r1 # r2 /\ req[r1] = req[r2] /\ req[r1].svc = "ytdlp"
        /\ pc[r1] = "returned" /\ LibRaised(r1) /\ result[r1].kind = "raise"
        /\ Done(r2) /\ LibReturned(r2) /\ resp[r2].status = 200
        /\ resp[r2] = OwnResponse(r2)

====
